---- MODULE Spec2Model ----
(***************************************************************************)
(* git-sub-rebase (src/src/main.rs): a recursive rebase of a repository    *)
(* and its submodules.  The model covers main from the "Press ENTER to     *)
(* begin" prompt on: the post-order traversal that runs the rebase driver  *)
(* (multi_rebase_inner) at every node, the driver itself (backup, marker   *)
(* branches, fast paths, rebase start, replay loop with the submodule      *)
(* substitution, finish), and the finalization / rollback traversals.      *)
(*                                                                         *)
(* The object store is modelled by what libgit2 does: branches are a map   *)
(* from names to commits, HEAD is symbolic or detached, reset --hard moves *)
(* the branch HEAD names, the rebase engine detaches HEAD at `onto`,       *)
(* advances the detached HEAD with every commit and moves the rebased      *)
(* branch only in finish.  The outcomes of engine calls and of read-lines  *)
(* are inputs.                                                             *)
(***************************************************************************)
EXTENDS Integers, Sequences, FiniteSets, TLC

VARIABLES
    cfg,        \* the scenario: the histories' gitlinks, chosen in Init
    clock,      \* Local::now(), in seconds
    parentOf,   \* per repository: commit id -> parent id (0: none); grows
    refs,       \* per repository: branch name -> commit (0: no such branch)
    backups,    \* per repository: the set of backup/<short>_<time> branches
    head,       \* per repository: HEAD, symbolic or detached
    phase,      \* where main is
    todo,       \* nodes the current traversal of main has still to visit
    origBranch, \* original_branch_names of main
    results,    \* per node: the CommitMap the traversal got from the driver
    active,     \* stack of nodes whose driver is running (last = running)
    drv,        \* per node: the locals of multi_rebase_inner
    hist,       \* history: what the driver did, for stating the properties
    INTERRUPTED, \* the flag the Ctrl-C handler sets
    reading,    \* read_stdin is waiting in read_line
    checkout_names, \* update_submodules: node -> the branch chosen for it
    signalled   \* the handler has run since read_stdin last returned

vars == <<cfg, clock, parentOf, refs, backups, head, phase, todo, origBranch,
          results, active, drv, hist, INTERRUPTED, reading, checkout_names, signalled>>

(***************************************************************************)
(* Bounds                                                                  *)
(***************************************************************************)
\* conflict prompts answered per driver run before the engine call succeeds
MaxRetry == 1
\* seconds that may pass during a run (the backup names carry HH-MM-SS)
MaxClock == 1

(***************************************************************************)
(* The forest: root R with submodules S (present in the target tree) and   *)
(* T (added inside the rebased range, absent from the target tree).        *)
(***************************************************************************)
SeqToSet(s) == {s[i] : i \in 1..Len(s)}

Repos == {"R", "S", "T"}
Root == "R"
Children(r) == IF r = "R" THEN <<"S", "T">> ELSE <<>>

\* every repository starts with the same graph: 1 <- 2 <- 3 and 1 <- 4
OrigParents == <<0, 1, 2, 1>>
OrigCommits == 1..Len(OrigParents)

Markers == {"multi_rebase_old", "multi_rebase_cur", "multi_rebase_new", "multi_rebase_track"}
UserBranch == "B"
\* the local branches a repository may have besides the markers
LocalNames == <<"B", "D">>
BranchNames == Markers \cup SeqToSet(LocalNames)
\* the one remote-tracking branch a repository may have
RemoteName == "origin/B"

\* how the range of R links T: <<link in commit 2, link in commit 3 (HEAD)>>
TProfiles == [none |-> <<0, 0>>, anc |-> <<1, 2>>, div |-> <<4, 2>>,
              late |-> <<0, 2>>, gone |-> <<2, 0>>]

\* how a repository is found when the program starts: on its branch B, with
\* a detached HEAD, or as a run that crashed left it (the four markers, HEAD
\* on multi_rebase_new)
Kinds == {"named", "detached", "crashed"}

\* the branches of a repository whose HEAD names no branch of the user:
\* where B, D and origin/B point (the HEAD commit, another commit, nowhere)
\* and which local branches have origin/B as upstream
Stores ==
    [plain    |-> [B |-> "head",  D |-> "none",  remote |-> "none",  tracking |-> {}],
     tracked1 |-> [B |-> "other", D |-> "none",  remote |-> "head",  tracking |-> {"B"}],
     tracked2 |-> [B |-> "other", D |-> "head",  remote |-> "head",  tracking |-> {"B", "D"}],
     local2   |-> [B |-> "head",  D |-> "head",  remote |-> "other", tracking |-> {"B"}],
     remote1  |-> [B |-> "none",  D |-> "other", remote |-> "head",  tracking |-> {}],
     any1     |-> [B |-> "other", D |-> "none",  remote |-> "other", tracking |-> {"B"}],
     any2     |-> [B |-> "other", D |-> "other", remote |-> "none",  tracking |-> {}],
     empty    |-> [B |-> "none",  D |-> "none",  remote |-> "other", tracking |-> {}]]

\* what the precondition checks of main find
Faults == {"none", "dirty", "noref", "lockR", "lockS", "lockT"}

\* scenarios of the rebase itself: every repository on its branch
DriverConfigs ==
    [tR : {1, 3, 4},          \* the commit the user's <ref> names in R
     l2 : {2, 3},             \* S as linked by commit 2 of R
     l4 : {1, 3, 4},          \* S as linked by commit 4 of R
     pathIsName : BOOLEAN,    \* S's declared name equals its path
     tprof : DOMAIN TProfiles,
     unopenable : SUBSET {"S"},   \* submodules whose repository is missing
     fault : {"none"}, kindR : {"named"}, kindS : {"named"}, kindT : {"named"},
     store : {"plain"}]

\* scenarios of the pinning: R is rebased onto its own HEAD
PinConfigs ==
    [tR : {3}, l2 : {2}, l4 : {4}, pathIsName : {TRUE}, tprof : {"none"},
     unopenable : {{}}, fault : {"none"},
     kindR : Kinds, kindS : Kinds, kindT : {"named"}, store : DOMAIN Stores]

\* scenarios of the precondition checks
FaultConfigs ==
    [tR : {4}, l2 : {2}, l4 : {4}, pathIsName : {TRUE}, tprof : {"anc"},
     unopenable : {{}}, fault : Faults \ {"none"},
     kindR : {"named"}, kindS : {"named", "detached"}, kindT : {"named"},
     store : {"plain"}]

\* scenarios of a run after a run that crashed: T, a submodule of R's HEAD
\* that the target commit does not have, still has the markers
LeftoverConfigs ==
    [tR : {4}, l2 : {2}, l4 : {4}, pathIsName : {TRUE}, tprof : {"anc"},
     unopenable : {{}}, fault : {"none"},
     kindR : {"named", "crashed"}, kindS : {"named"}, kindT : {"crashed"},
     store : {"plain"}]

Configs == DriverConfigs \cup PinConfigs \cup FaultConfigs \cup LeftoverConfigs

\* the index.lock files that exist (main.rs:807-808)
Locked == CASE cfg.fault = "lockR" -> {"R"}
            [] cfg.fault = "lockS" -> {"S"}
            [] cfg.fault = "lockT" -> {"T"}
            [] OTHER -> {}

KindOf(r) == CASE r = "R" -> cfg.kindR [] r = "S" -> cfg.kindS [] OTHER -> cfg.kindT
StoreOf(r) == IF KindOf(r) = "named" THEN Stores.plain ELSE Stores[cfg.store]

\* the commit every reference of r that is `at HEAD` starts at; a reference
\* that is not at HEAD is at commit 4, which is not an ancestor of HEAD
TipOf(r) == IF r = "T" THEN 2 ELSE 3
Place(where, r) == CASE where = "head" -> TipOf(r) [] where = "other" -> 4 [] OTHER -> 0

\* the remote-tracking branch origin/B of r (0: none) and the upstream of a
\* local branch ("": none)
RemoteTip(r) == Place(StoreOf(r).remote, r)
Upstream(r, b) == IF b \in StoreOf(r).tracking THEN RemoteName ELSE ""


\* the gitlink of submodule c in the tree of commit x of r (0: no entry);
\* submodule_at_tree reads it
\* The entry of R's HEAD commit 3 is the commit the submodule is at (3 for S,
\* 2 for T): main refuses to run with a dirty working copy (main.rs:787-791)
\* and the engine refuses to start a rebase over one.
Link(r, x, c) ==
    IF r # "R" \/ x \notin OrigCommits THEN 0
    ELSE IF c = "S" THEN <<1, cfg.l2, 3, cfg.l4>>[x]
    ELSE IF c = "T" THEN <<0, TProfiles[cfg.tprof][1], TProfiles[cfg.tprof][2], 0>>[x]
    ELSE 0

\* Submodule::open succeeds, at once or after the update the code tries
\* (main.rs:104-128, 614-634)
Opens(c) == c \notin cfg.unopenable

\* Submodule::name and Submodule::path
SubName(c) == c
SubPath(c) == IF c = "S" /\ ~cfg.pathIsName THEN "libs/S" ELSE c

(***************************************************************************)
(* Commit graph                                                            *)
(***************************************************************************)
RECURSIVE Ancestors(_, _)
\* c and everything reachable from it
Ancestors(par, c) == IF c = 0 THEN {} ELSE {c} \cup Ancestors(par, par[c])

RECURSIVE Depth(_, _)
Depth(par, c) == IF c = 0 THEN 0 ELSE 1 + Depth(par, par[c])

\* Repository::merge_base: the deepest common ancestor (0: none)
MergeBase(par, a, b) ==
    LET common == Ancestors(par, a) \cap Ancestors(par, b)
    IN IF common = {} THEN 0
       ELSE CHOOSE m \in common : \A o \in common : Depth(par, o) <= Depth(par, m)

RECURSIVE RangeSeq(_, _, _)
\* the commits reachable from tip and not from base, oldest first: the
\* operations of a rebase of tip with upstream base
RangeSeq(par, base, tip) ==
    IF tip = 0 \/ tip \in Ancestors(par, base) THEN <<>>
    ELSE Append(RangeSeq(par, base, par[tip]), tip)

(***************************************************************************)
(* References                                                              *)
(***************************************************************************)
Detached(id) == [sym |-> FALSE, name |-> "HEAD", id |-> id]
OnBranch(b) == [sym |-> TRUE, name |-> b, id |-> 0]

\* Reference::name of repo.head(): "HEAD" when detached
HeadName(h) == IF h.sym THEN h.name ELSE "HEAD"

\* repo.head()?.peel_to_commit()?.id() for HEAD h over the branches rf
PeelHead(h, rf) == IF h.sym THEN rf[h.name] ELSE h.id

HeadCommit(r) == PeelHead(head[r], refs[r])

\* Repository::reset(commit, Hard): the branch HEAD names (or the detached
\* HEAD) moves to the commit
ResetRefs(h, rf, commit) == IF h.sym THEN [rf EXCEPT ![h.name] = commit] ELSE rf
ResetHead(h, commit) == IF h.sym THEN h ELSE Detached(commit)

NoMarkers(rf) == \A m \in Markers : rf[m] = 0

\* git_reference_delete of the four markers in the order of the code; a
\* find_branch that fails stops the sequence with an error
MarkerOrder == <<"multi_rebase_old", "multi_rebase_cur", "multi_rebase_new", "multi_rebase_track">>

RECURSIVE DeleteFrom(_, _)
\* the branches after deleting MarkerOrder[i..] up to the first missing one
DeleteFrom(rf, i) ==
    IF i > Len(MarkerOrder) \/ rf[MarkerOrder[i]] = 0 THEN rf
    ELSE DeleteFrom([rf EXCEPT ![MarkerOrder[i]] = 0], i + 1)

DeleteMarkers(rf) == DeleteFrom(rf, 1)

\* variant: creating a backup removes the backups made before it
PutBackupAlone(bs, short, t, commit) ==
    {[short |-> short, time |-> t, at |-> commit]}

\* repo.branch(name, commit, true) for a backup/<short>_<time> name
PutBackup(bs, short, t, commit) ==
    {b \in bs : ~(b.short = short /\ b.time = t)}
        \cup {[short |-> short, time |-> t, at |-> commit]}

(***************************************************************************)
(* recurse_subs: post-order, a child is visited when the parent's target   *)
(* tree has an entry for it; its target is that entry.                     *)
(***************************************************************************)
RECURSIVE ParentFirstFrom(_, _, _)
\* variant: the traversal visits a node before its children
ParentFirstFrom(r, target, i) ==
    LET self == IF i = 1 THEN << [node |-> r, target |-> target] >> ELSE <<>>
    IN IF i > Len(Children(r)) THEN self
       ELSE LET c == Children(r)[i]
                sub_object == Link(r, target, c)
            IN self \o (IF Opens(c) /\ sub_object # 0 THEN ParentFirstFrom(c, sub_object, 1) ELSE <<>>)
                    \o ParentFirstFrom(r, target, i + 1)

RECURSIVE PostOrderFrom(_, _, _)
PostOrder(r, target) == PostOrderFrom(r, target, 1)

\* the visits below child i.. of r, then r itself
PostOrderFrom(r, target, i) ==
    IF i > Len(Children(r)) THEN << [node |-> r, target |-> target] >>
    ELSE LET c == Children(r)[i]
             sub_object == Link(r, target, c)
         IN (IF Opens(c) /\ sub_object # 0 THEN PostOrder(c, sub_object) ELSE <<>>)
                \o PostOrderFrom(r, target, i + 1)

\* the children of r the traversal visited for this target
Visited(r, target) ==
    {c \in SeqToSet(Children(r)) : Opens(c) /\ Link(r, target, c) # 0}

\* the child-results the traversal hands to the visitor: keyed by NAME
ResultsByName(r, target) ==
    LET cs == Visited(r, target)
    IN [k \in {SubName(c) : c \in cs} |->
            results[CHOOSE c \in cs : SubName(c) = k]]

ChildByName(r, k) == CHOOSE c \in SeqToSet(Children(r)) : SubName(c) = k

(***************************************************************************)
(* Locals of multi_rebase_inner                                            *)
(***************************************************************************)
Idle == [pc |-> "idle", target |-> 0, entryHead |-> Detached(0), entryId |-> 0,
         base |-> 0, child_results |-> <<>>, sub_heads |-> <<>>,
         commit_map |-> <<>>, ops |-> <<>>, opi |-> 0, subs |-> <<>>,
         subi |-> 0, retries |-> 0, resolved |-> FALSE, why |-> "none"]

NoReturn == [kind |-> "none", base |-> 0, target |-> 0, tip |-> 0, map |-> <<>>]

Top == active[Len(active)]
Running(n) == active # <<>> /\ Top = n

\* the references and HEAD of r when the program starts
InitRefs(r) ==
    [b \in BranchNames |->
        IF b \in Markers
        THEN (IF KindOf(r) = "crashed" THEN TipOf(r) ELSE 0)
        ELSE Place(StoreOf(r)[b], r)]

InitHead(r) ==
    CASE KindOf(r) = "named" -> OnBranch(UserBranch)
      [] KindOf(r) = "detached" -> Detached(TipOf(r))
      [] OTHER -> OnBranch("multi_rebase_new")

Init ==
    /\ cfg \in Configs
    /\ clock = 0
    /\ parentOf = [r \in Repos |-> OrigParents]
    /\ refs = [r \in Repos |-> InitRefs(r)]
    /\ backups = [r \in Repos |-> {}]
    /\ head = [r \in Repos |-> InitHead(r)]
    /\ phase = "clean"
    /\ todo = <<>>
    /\ origBranch = <<>>
    /\ checkout_names = <<>>
    /\ results = [r \in Repos |-> <<>>]
    /\ active = <<>>
    /\ drv = [r \in Repos |-> Idle]
    /\ hist = [entries |-> [r \in Repos |-> 0],
               preTip |-> [r \in Repos |-> 0],
               travDone |-> [r \in Repos |-> FALSE],
               ret |-> [r \in Repos |-> NoReturn],
               made |-> {},
               cause |-> "none",
               err |-> "none"]
    /\ INTERRUPTED = FALSE
    /\ reading = FALSE
    /\ signalled = FALSE

(***************************************************************************)
(* Leaving the driver                                                      *)
(***************************************************************************)
\* variant: an Err of the driver ends the run at once
FailWithoutRollback(h) ==
    /\ phase' = "failed"
    /\ todo' = <<>>
    /\ active' = <<>>
    /\ drv' = [r \in Repos |-> Idle]
    /\ results' = results
    /\ hist' = [h EXCEPT !.err = "driver"]

\* an Err leaves multi_rebase_inner: `?` carries it through every frame of
\* recurse_subs and do_rebase into main, which starts the rollback traversal
Fail(h) ==
    /\ phase' = "rollback"
    /\ todo' = PostOrder(Root, cfg.tR)
    /\ active' = <<>>
    /\ drv' = [r \in Repos |-> Idle]
    /\ results' = results
    /\ hist' = [h EXCEPT !.err = "driver"]

\* Ok(commit_map) leaves multi_rebase_inner at n.  The traversal stores it
\* under the child's name (main.rs:158); a parent's replay that rebased n as
\* a new submodule stores it under the child's path (main.rs:654).
ReturnOk(n, ret, d, h) ==
    /\ active' = SubSeq(active, 1, Len(active) - 1)
    /\ phase' = phase
    /\ IF Len(active) = 1
       THEN /\ results' = [results EXCEPT ![n] = ret.map]
            /\ todo' = Tail(todo)
            /\ drv' = [d EXCEPT ![n] = Idle]
            /\ hist' = [h EXCEPT !.ret[n] = ret, !.travDone[n] = TRUE]
       ELSE LET p == active[Len(active) - 1]
            IN /\ results' = results
               /\ todo' = todo
               /\ drv' = [d EXCEPT ![n] = Idle,
                             ![p].child_results = (SubPath(n) :> ret.map) @@ d[p].child_results]
               /\ hist' = [h EXCEPT !.ret[n] = ret]

\* variant: the driver returns with HEAD still on the branch of the rebase
RestoreNothing(entryHead, entryId) == OnBranch("multi_rebase_new")

\* main.rs:505-515, 536-546, 732-742: HEAD back to what it was at entry
RestoreHead(entryHead, entryId) ==
    IF HeadName(entryHead) = "HEAD" THEN Detached(entryId) ELSE OnBranch(HeadName(entryHead))

(***************************************************************************)
(* main, from the "Press ENTER to begin" prompt (main.rs:840)              *)
(***************************************************************************)
\* variant: read_stdin returns the line without looking at the flag
read_line_only == "line"

\* read_stdin (main.rs:29-37) after read_line returned: the line, or the
\* error "Interrupted" when the flag is set
read_stdin == IF INTERRUPTED THEN "interrupted" ELSE "line"

\* the program is at a prompt and has not called read_stdin yet
AtReadCall ==
    \/ phase \in {"pickPrompt", "cleanPrompt", "begin"}
    \/ phase = "driver" /\ active # <<>> /\ drv[Top].pc \in {"startPrompt", "commitPrompt"}

\* read_stdin up to read_line: the flag is cleared, then the call blocks
ReadStdin ==
    /\ AtReadCall
    /\ ~reading
    /\ INTERRUPTED' = FALSE
    /\ reading' = TRUE
    /\ UNCHANGED <<signalled, checkout_names, cfg, clock, parentOf, refs, backups, head, phase,
                   todo, origBranch, results, active, drv, hist>>

\* the handler of ctrlc::set_handler (main.rs:778-780) runs
Interrupt ==
    /\ phase \notin {"done", "failed"}
    /\ INTERRUPTED' = TRUE
    /\ signalled' = TRUE
    /\ UNCHANGED <<checkout_names, reading, cfg, clock, parentOf, refs, backups, head,
                   phase, todo, origBranch, results, active, drv, hist>>

(***************************************************************************)
(* main before the rebase: the precondition checks (main.rs:787-812)       *)
(***************************************************************************)
\* an Err returned by main before the rollback closure exists
PreFail(why) ==
    /\ phase' = "failed"
    /\ todo' = <<>>
    /\ hist' = [hist EXCEPT !.err = why]

\* the nodes recurse_subs visits from the root for the user's target
Traversed == {v.node : v \in SeqToSet(PostOrder(Root, cfg.tR))}

\* diff_index_to_workdir of the root repository (main.rs:787-791)
CheckClean ==
    /\ phase = "clean"
    /\ IF cfg.fault = "dirty"
       THEN PreFail("dirty")
       ELSE phase' = "resolve" /\ UNCHANGED <<todo, hist>>
    /\ UNCHANGED <<signalled, checkout_names, INTERRUPTED, reading, cfg, clock, parentOf, refs, backups, head, origBranch, results, active, drv>>

\* resolve_reference_from_short_name of the user's <ref> (main.rs:796-802)
ResolveTarget ==
    /\ phase = "resolve"
    /\ IF cfg.fault = "noref"
       THEN PreFail("noref")
       ELSE phase' = "locks" /\ UNCHANGED <<todo, hist>>
    /\ UNCHANGED <<signalled, checkout_names, INTERRUPTED, reading, cfg, clock, parentOf, refs, backups, head, origBranch, results, active, drv>>

\* the traversal looking for index.lock in each visited node (main.rs:805-812)
CheckLocks ==
    /\ phase = "locks"
    /\ IF Traversed \cap Locked # {}
       THEN PreFail("lock")
       ELSE phase' = "needs" /\ UNCHANGED <<todo, hist>>
    /\ UNCHANGED <<signalled, checkout_names, INTERRUPTED, reading, cfg, clock, parentOf, refs, backups, head, origBranch, results, active, drv>>

(***************************************************************************)
(* update_submodules (main.rs:169-433)                                     *)
(***************************************************************************)
\* HEAD names no branch of the user: detached, or on a marker
Unnamed(h) == HeadName(h) = "HEAD" \/ HeadName(h) \in Markers

\* the children the traversal visits under r, and the keys of child_results
VisitedKids(r, target) ==
    {c \in SeqToSet(Children(r)) : Opens(c) /\ Link(r, target, c) # 0}

\* the else branch of the first visitor (main.rs:177): len() > 0 || all(..)
ElseNeeds(len, needs) == len > 0 \/ \A b \in needs : b

RECURSIVE need_checkouts(_, _)
\* the first traversal of update_submodules (main.rs:171-179) at node r
need_checkouts(r, target) ==
    LET kids == VisitedKids(r, target)
        len == Cardinality({SubName(c) : c \in kids})
        needs == {need_checkouts(c, Link(r, target, c)) : c \in kids}
    IN IF Unnamed(head[r]) THEN TRUE ELSE ElseNeeds(len, needs)

NeedCheckouts ==
    /\ phase = "needs"
    /\ IF need_checkouts(Root, cfg.tR)
       THEN phase' = "pick" /\ todo' = PostOrder(Root, cfg.tR)
       ELSE phase' = "leftover" /\ todo' = <<>>
    /\ UNCHANGED <<signalled, checkout_names, INTERRUPTED, reading, cfg, clock, parentOf, refs, backups, head, origBranch, results, active, drv, hist>>

\* the local branches the four lists consider, in iteration order
Locals(n) == SelectSeq(LocalNames, LAMBDA b : refs[n][b] # 0)
Same(b) == [local |-> b, remote |-> b]

\* branch_name_to_canonical of a remote branch name: the local name it maps to
Canonical(remote) == IF remote = RemoteName THEN "B" ELSE remote

\* main.rs:198-224
matching_tracked_branches(n) ==
    IF RemoteTip(n) = HeadCommit(n)
    THEN LET ls == SelectSeq(Locals(n), LAMBDA b : Upstream(n, b) = RemoteName)
         IN [i \in 1..Len(ls) |-> [local |-> ls[i], remote |-> RemoteName]]
    ELSE <<>>

\* main.rs:227-238
matching_local_branches(n) ==
    LET ls == SelectSeq(Locals(n), LAMBDA b : refs[n][b] = HeadCommit(n))
    IN [i \in 1..Len(ls) |-> Same(ls[i])]

\* main.rs:240-251
matching_remote_branches(n) ==
    IF RemoteTip(n) = HeadCommit(n)
    THEN << [local |-> Canonical(RemoteName), remote |-> RemoteName] >>
    ELSE <<>>

\* main.rs:253-260
all_local_branches(n) == [i \in 1..Len(Locals(n)) |-> Same(Locals(n)[i])]

\* variant: the if-chain asks about the branches at HEAD before the tracked
\* ones
OfferedLocalFirst(n) ==
    CASE matching_local_branches(n) # <<>> -> matching_local_branches(n)
      [] matching_tracked_branches(n) # <<>> -> matching_tracked_branches(n)
      [] matching_remote_branches(n) # <<>> -> matching_remote_branches(n)
      [] OTHER -> all_local_branches(n)

\* the list the if-chain of main.rs:264-351 asks about (<<>>: none found)
Offered(n) ==
    CASE matching_tracked_branches(n) # <<>> -> matching_tracked_branches(n)
      [] matching_local_branches(n) # <<>> -> matching_local_branches(n)
      [] matching_remote_branches(n) # <<>> -> matching_remote_branches(n)
      [] OTHER -> all_local_branches(n)

\* the traversal of main.rs:185-357 moves on to its next node, or ends and
\* the checkout traversal starts
NextPick ==
    IF Len(todo) > 1
    THEN phase' = "pick" /\ todo' = Tail(todo)
    ELSE phase' = "pin" /\ todo' = PostOrder(Root, cfg.tR)

\* the second visitor up to its prompt (main.rs:187-266)
PickBranch ==
    /\ phase = "pick"
    /\ todo # <<>>
    /\ LET n == Head(todo).node
       IN IF ~Unnamed(head[n])
          THEN NextPick /\ hist' = hist
          ELSE IF Offered(n) = <<>>
          THEN PreFail("nobranch")
          ELSE phase' = "pickPrompt" /\ UNCHANGED <<todo, hist>>
    /\ UNCHANGED <<signalled, checkout_names, INTERRUPTED, reading, cfg, clock, parentOf, refs, backups, head, origBranch, results, active, drv>>

\* what the user may type at a prompt about `count` branches: y or n for one
\* branch, an index (0 and count + 1 among them) for several
Answers(count) == IF count = 1 THEN {"y", "n"} ELSE 0..(count + 1)

\* the second visitor from read_stdin's return (main.rs:267-353)
PickPrompt ==
    /\ phase = "pickPrompt"
    /\ reading
    /\ reading' = FALSE
    /\ signalled' = FALSE
    /\ LET n == Head(todo).node
           list == Offered(n)
           answer == read_stdin
       IN IF answer # "line"
          THEN PreFail("interrupted") /\ checkout_names' = checkout_names
          ELSE \E choice \in Answers(Len(list)) :
                 IF Len(list) = 1
                 THEN IF choice = "n"
                      THEN PreFail("cancel") /\ checkout_names' = checkout_names
                      ELSE /\ checkout_names' = (n :> list[1]) @@ checkout_names
                           /\ NextPick /\ hist' = hist
                 ELSE IF choice = 0 \/ choice > Len(list)
                      THEN PreFail("cancel") /\ checkout_names' = checkout_names
                      ELSE /\ checkout_names' = (n :> list[choice]) @@ checkout_names
                           /\ NextPick /\ hist' = hist
    /\ UNCHANGED <<INTERRUPTED, cfg, clock, parentOf, refs, backups, head, origBranch, results, active, drv>>

\* variant: the chosen branch is created when missing and never reset
CheckedOutAsIs(rf, local, current) ==
    IF rf[local] # 0 THEN rf ELSE [rf EXCEPT ![local] = current]

\* the references after main.rs:379-390: the chosen branch found, or created
\* at the HEAD commit, made HEAD and reset (mixed, then hard) to that commit
CheckedOut(rf, local, current) == [rf EXCEPT ![local] = current]

\* the third visitor (main.rs:370-393): backup of HEAD, the chosen branch
\* found or created, HEAD set to it, and the branch reset to the old HEAD
CheckoutBranch ==
    /\ phase = "pin"
    /\ todo # <<>>
    /\ LET n == Head(todo).node
       IN /\ IF n \in DOMAIN checkout_names
             THEN \E now \in clock..(IF clock < MaxClock THEN clock + 1 ELSE clock) :
                    LET current == HeadCommit(n)
                        local == checkout_names[n].local
                    IN /\ clock' = now
                       /\ backups' = [backups EXCEPT ![n] = PutBackup(@, "HEAD", now, current)]
                       /\ head' = [head EXCEPT ![n] = OnBranch(local)]
                       /\ refs' = [refs EXCEPT ![n] = CheckedOut(@, local, current)]
                       /\ hist' = [hist EXCEPT !.made = @ \cup {[repo |-> n, short |-> "HEAD", time |-> now]}]
             ELSE UNCHANGED <<clock, backups, head, refs, hist>>
          /\ IF Len(todo) > 1
             THEN phase' = "pin" /\ todo' = Tail(todo)
             ELSE phase' = "leftover" /\ todo' = <<>>
    /\ UNCHANGED <<signalled, checkout_names, INTERRUPTED, reading, cfg, parentOf, origBranch, results, active, drv>>

\* the fourth traversal (main.rs:396-409): some visited node has a marker
need_clean_old_rebase == \E n \in Traversed : ~NoMarkers(refs[n])

DetectLeftover ==
    /\ phase = "leftover"
    /\ phase' = IF need_clean_old_rebase THEN "cleanPrompt" ELSE "names"
    /\ UNCHANGED <<signalled, checkout_names, INTERRUPTED, reading, cfg, clock, parentOf, refs, backups, head, todo, origBranch, results, active, drv, hist>>

\* main.rs:413-429: after ENTER every marker of every visited node is deleted
CleanOldRebase ==
    /\ phase = "cleanPrompt"
    /\ reading
    /\ reading' = FALSE
    /\ signalled' = FALSE
    /\ IF read_stdin # "line"
       THEN PreFail("interrupted") /\ refs' = refs
       ELSE /\ refs' = [r \in Repos |-> IF r \in Traversed THEN DeleteMarkers(refs[r]) ELSE refs[r]]
            /\ phase' = "names"
            /\ UNCHANGED <<todo, hist>>
    /\ UNCHANGED <<checkout_names, INTERRUPTED, cfg, clock, parentOf, backups, head, origBranch, results, active, drv>>

\* original_branch_names (main.rs:817-830): the name of every visited
\* node's HEAD
RecordBranches ==
    /\ phase = "names"
    /\ origBranch' = [n \in Traversed |-> HeadName(head[n])]
    /\ phase' = "begin"
    /\ UNCHANGED <<signalled, checkout_names, INTERRUPTED, reading, cfg, clock, parentOf, refs, backups, head, todo, results, active, drv, hist>>

Begin ==
    /\ reading
    /\ reading' = FALSE
    /\ signalled' = FALSE
    /\ phase = "begin"
    /\ LET answer == read_stdin IN
          IF answer = "line"
          THEN /\ phase' = "driver"
               /\ todo' = PostOrder(Root, cfg.tR)
               /\ hist' = hist
          ELSE /\ phase' = "failed"
               /\ todo' = todo
               /\ hist' = [hist EXCEPT !.err = "interrupted"]
    /\ UNCHANGED <<checkout_names, INTERRUPTED, cfg, clock, parentOf, refs, backups, head, origBranch, results, active, drv>>

\* recurse calls the visitor on the next node in post-order (main.rs:163)
Visit ==
    /\ phase = "driver"
    /\ active = <<>>
    /\ todo # <<>>
    /\ LET v == Head(todo)
       IN /\ active' = <<v.node>>
          /\ drv' = [drv EXCEPT ![v.node] =
                        [Idle EXCEPT !.pc = "entry", !.target = v.target,
                                     !.child_results = ResultsByName(v.node, v.target)]]
    /\ UNCHANGED <<signalled, checkout_names, INTERRUPTED, reading, cfg, clock, parentOf, refs, backups, head, phase, todo, origBranch, results, hist>>

\* do_rebase returned Ok: main goes on to the finalization traversal
DriverDone ==
    /\ phase = "driver"
    /\ active = <<>>
    /\ todo = <<>>
    /\ phase' = "finalize"
    /\ todo' = PostOrder(Root, cfg.tR)
    /\ UNCHANGED <<signalled, checkout_names, INTERRUPTED, reading, cfg, clock, parentOf, refs, backups, head, origBranch, results, active, drv, hist>>

(***************************************************************************)
(* multi_rebase_inner, entry to the fast paths (main.rs:466-551)           *)
(***************************************************************************)
\* the four markers created or force-moved to the entry commit
MarkersAt(rf, commit) == [b \in BranchNames |-> IF b \in Markers THEN commit ELSE rf[b]]

\* commit_map of the HEAD == target fast path (main.rs:503)
SameMap(target) == (target :> target)

\* variant: the replay starts from an empty commit_map
NoAnchor(base, target) == <<>>

\* commit_map seeded for the full replay (main.rs:550-551)
AnchorMap(base, target) == (base :> target)

\* commit_map.insert(op.id(), new_id) (main.rs:727)
Record(map, op, new_id) == (op :> new_id) @@ map

\* variant: the fast path leaves the merge base out of the map
RangeOnlyMap(par, base, tip) ==
    [c \in SeqToSet(RangeSeq(par, base, tip)) |-> c]

\* commit_map of the base == target fast path (main.rs:525-535)
IdentityMap(par, base, tip) ==
    [c \in SeqToSet(RangeSeq(par, base, tip)) \cup {base} |-> c]

Entry ==
    /\ active # <<>>
    /\ drv[Top].pc = "entry"
    /\ LET n == Top
           entryHead == head[n]
           tip == HeadCommit(n)
           target == drv[n].target
           base == MergeBase(parentOf[n], tip, target)
           cr == drv[n].child_results
           sub_heads == [k \in DOMAIN cr |-> head[ChildByName(n, k)]]
       IN \E now \in clock..(IF clock < MaxClock THEN clock + 1 ELSE clock) :
          LET bs == PutBackup(backups[n], HeadName(entryHead), now, tip)
              h == [hist EXCEPT !.entries[n] = @ + 1,
                                !.preTip[n] = IF hist.entries[n] = 0 THEN tip ELSE @,
                                !.made = @ \cup {[repo |-> n, short |-> HeadName(entryHead), time |-> now]}]
              d == [drv EXCEPT ![n].entryHead = entryHead, ![n].entryId = tip,
                               ![n].base = base, ![n].sub_heads = sub_heads]
          IN /\ clock' = now
             /\ backups' = [backups EXCEPT ![n] = bs]
             /\ refs' = [refs EXCEPT ![n] = MarkersAt(@, tip)]
             /\ UNCHANGED <<signalled, checkout_names, INTERRUPTED, reading, cfg, parentOf, origBranch>>
             /\ IF tip = target
                THEN /\ head' = [head EXCEPT ![n] = RestoreHead(entryHead, tip)]
                     /\ ReturnOk(n, [kind |-> "same", base |-> base, target |-> target,
                                     tip |-> tip, map |-> SameMap(target)], d, h)
                ELSE IF base = target
                THEN /\ head' = [head EXCEPT ![n] = RestoreHead(entryHead, tip)]
                     /\ ReturnOk(n, [kind |-> "ancestor", base |-> base, target |-> target,
                                     tip |-> tip, map |-> IdentityMap(parentOf[n], base, tip)], d, h)
                ELSE /\ head' = [head EXCEPT ![n] = OnBranch("multi_rebase_new")]
                     /\ drv' = [d EXCEPT ![n].commit_map = AnchorMap(base, target), ![n].pc = "start"]
                     /\ hist' = h
                     /\ UNCHANGED <<phase, todo, results, active>>

(***************************************************************************)
(* Rebase start and the pre-replay index cleanup (main.rs:553-601)         *)
(***************************************************************************)
StartOutcomes == {"ok", "conflict", "error"}

\* variant: every error of repo.rebase is answered with a prompt
StartRecoversAll(outcome) == outcome # "ok"

\* `Err(e) if e.code() == Conflict` (main.rs:564): the errors of repo.rebase
\* the loop answers with a prompt and another attempt
StartRecovers(outcome) == outcome = "conflict"

\* diff_index_to_workdir after the engine checked out `target`: the child c
\* of n is modified when its HEAD is not the gitlink of the index, and the
\* cleanup handles it when child_results has its PATH (main.rs:585)
NeedsCleanup(n, c) ==
    /\ c \in SeqToSet(Children(n))
    /\ Link(n, drv[n].target, c) # 0
    /\ HeadCommit(c) # Link(n, drv[n].target, c)
    /\ SubPath(c) \in DOMAIN drv[n].child_results

\* variant: the parent moves the child's multi_rebase_old
PointChildOldAt(rf, commit) == [rf EXCEPT !["multi_rebase_old"] = commit]

\* a child the parent points at its multi_rebase_cur and hard-resets to
\* `commit` (main.rs:593-594, 681-682, 692-693)
PointChildAt(rf, commit) == [rf EXCEPT !["multi_rebase_cur"] = commit]

Start ==
    /\ active # <<>>
    /\ drv[Top].pc = "start"
    /\ LET n == Top
       IN \E outcome \in StartOutcomes :
          /\ StartRecovers(outcome) => drv[n].retries < MaxRetry
          /\ CASE outcome = "ok" ->
                    IF \E c \in Repos : NeedsCleanup(n, c) /\ refs[c]["multi_rebase_cur"] = 0
                    THEN /\ Fail([hist EXCEPT !.cause = "store"])
                         /\ UNCHANGED <<head, refs>>
                    ELSE /\ head' = [r \in Repos |->
                                       IF r = n THEN Detached(drv[n].target)
                                       ELSE IF NeedsCleanup(n, r) THEN OnBranch("multi_rebase_cur")
                                       ELSE head[r]]
                         /\ refs' = [r \in Repos |->
                                       IF NeedsCleanup(n, r)
                                       THEN PointChildAt(refs[r], Link(n, drv[n].target, r))
                                       ELSE refs[r]]
                         /\ drv' = [drv EXCEPT ![n].pc = "next", ![n].opi = 0,
                                       ![n].ops = RangeSeq(parentOf[n], drv[n].base,
                                                           refs[n]["multi_rebase_new"])]
                         /\ UNCHANGED <<phase, todo, results, active, hist>>
               [] StartRecovers(outcome) ->
                    /\ drv' = [drv EXCEPT ![n].pc = "startPrompt", ![n].why = outcome]
                    /\ UNCHANGED <<head, refs, phase, todo, results, active, hist>>
               [] OTHER ->
                    /\ Fail([hist EXCEPT !.cause = "start"])
                    /\ UNCHANGED <<head, refs>>
    /\ UNCHANGED <<signalled, checkout_names, INTERRUPTED, reading, cfg, clock, parentOf, backups, origBranch>>

\* "Please resolve then press enter when satisfied" (main.rs:571)
StartPrompt ==
    /\ reading
    /\ reading' = FALSE
    /\ signalled' = FALSE
    /\ active # <<>>
    /\ drv[Top].pc = "startPrompt"
    /\ LET answer == read_stdin IN
          IF answer = "line"
          THEN /\ drv' = [drv EXCEPT ![Top].pc = "start", ![Top].retries = @ + 1,
                                     ![Top].why = "none"]
               /\ UNCHANGED <<phase, todo, results, active, hist>>
          ELSE Fail([hist EXCEPT !.cause = "interrupted"])
    /\ UNCHANGED <<checkout_names, INTERRUPTED, cfg, clock, parentOf, refs, backups, head, origBranch>>

(***************************************************************************)
(* The replay loop (main.rs:603-728)                                       *)
(***************************************************************************)
NextOutcomes == {"op", "error"}

\* repo.submodules() while operation i of n is applied: the submodules with
\* a gitlink in the target tree or in a commit replayed so far
ReplaySubs(n, ops, i) ==
    SelectSeq(Children(n), LAMBDA c :
        \/ Link(n, drv[n].target, c) # 0
        \/ \E j \in 1..i : Link(n, ops[j], c) # 0)

\* `while let Some(Ok(op)) = rebase.next()`: the loop also ends when next()
\* returns Some(Err(_))
NextOp ==
    /\ active # <<>>
    /\ drv[Top].pc = "next"
    /\ LET n == Top
           d == drv[n]
       IN IF d.opi = Len(d.ops)
          THEN /\ drv' = [drv EXCEPT ![n].pc = "finish"]
               /\ refs' = refs
          ELSE \E outcome \in NextOutcomes :
                  IF outcome = "op"
                  THEN LET i == d.opi + 1
                           subs == ReplaySubs(n, d.ops, i)
                       IN /\ refs' = [refs EXCEPT ![n]["multi_rebase_track"] = d.ops[i]]
                          /\ drv' = [drv EXCEPT ![n].opi = i, ![n].subs = subs, ![n].subi = 1,
                                        ![n].resolved = FALSE,
                                        ![n].pc = IF subs = <<>> THEN "commit" ELSE "subs"]
                  ELSE /\ drv' = [drv EXCEPT ![n].pc = "finish"]
                       /\ refs' = refs
    /\ UNCHANGED <<signalled, checkout_names, INTERRUPTED, reading, cfg, clock, parentOf, backups, head, phase, todo, origBranch, results, active, hist>>

\* the operation being replayed and the submodule the loop is at
CurOp(n) == drv[n].ops[drv[n].opi]
CurSub(n) == drv[n].subs[drv[n].subi]

\* main.rs:614-634: the submodule the loop is at does not open, also not
\* after the update: the driver returns the error
SubOpenFails ==
    /\ active # <<>>
    /\ drv[Top].pc = "subs"
    /\ ~Opens(CurSub(Top))
    /\ Fail([hist EXCEPT !.cause = "submodule open"])
    /\ UNCHANGED <<signalled, checkout_names, INTERRUPTED, reading, cfg, clock, parentOf, refs, backups, head, origBranch>>

\* main.rs:637-658: a submodule whose PATH is not in child_results is rebased
\* now, from its id in the tree of the entry HEAD onto its id in the tree of
\* the replayed commit
SubNew ==
    /\ active # <<>>
    /\ drv[Top].pc = "subs"
    /\ Opens(CurSub(Top))
    /\ SubPath(CurSub(Top)) \notin DOMAIN drv[Top].child_results
    /\ LET n == Top
           c == CurSub(n)
           final_head == Link(n, drv[n].entryId, c)
           target_head == Link(n, CurOp(n), c)
       IN IF final_head # 0 /\ target_head # 0
          THEN /\ head' = [head EXCEPT ![c] = Detached(final_head)]
               /\ active' = Append(active, c)
               /\ drv' = [drv EXCEPT ![c] =
                             [Idle EXCEPT !.pc = "entry", !.target = target_head,
                                          !.child_results = ResultsByName(c, target_head)]]
               /\ UNCHANGED <<phase, todo, results, hist>>
          ELSE /\ Fail([hist EXCEPT !.cause = "new submodule"])
               /\ head' = head
    /\ UNCHANGED <<signalled, checkout_names, INTERRUPTED, reading, cfg, clock, parentOf, refs, backups, origBranch>>

\* the commit the code puts the child at for the entry `expected` of the
\* replayed tree, given its HEAD commit: the child stays where it is when it
\* is at `expected` or at the converted id (main.rs:676-700)
ChildGoal(cmap, expected, sub_head) ==
    IF sub_head # expected
    THEN IF expected \in DOMAIN cmap
         THEN cmap[expected]
         ELSE expected
    ELSE sub_head

\* main.rs:660-703 for the submodule the loop is at, then on to the next
\* submodule or to the commit
SubFix ==
    /\ active # <<>>
    /\ drv[Top].pc = "subs"
    /\ Opens(CurSub(Top))
    /\ SubPath(CurSub(Top)) \in DOMAIN drv[Top].child_results
    /\ LET n == Top
           c == CurSub(n)
           expected_commit == Link(n, CurOp(n), c)
           sub_head == HeadCommit(c)
           goal == ChildGoal(drv[n].child_results[SubPath(c)], expected_commit, sub_head)
           d == [drv EXCEPT ![n].subi = @ + 1,
                            ![n].pc = IF drv[n].subi = Len(drv[n].subs) THEN "commit" ELSE "subs"]
       IN IF expected_commit = 0 \/ goal = sub_head
          THEN /\ drv' = d
               /\ UNCHANGED <<head, refs, phase, todo, results, active, hist>>
          ELSE IF refs[c]["multi_rebase_cur"] = 0
          THEN /\ Fail([hist EXCEPT !.cause = "store"])
               /\ UNCHANGED <<head, refs>>
          ELSE /\ head' = [head EXCEPT ![c] = OnBranch("multi_rebase_cur")]
               /\ refs' = [refs EXCEPT ![c] = PointChildAt(@, goal)]
               /\ drv' = d
               /\ UNCHANGED <<phase, todo, results, active, hist>>
    /\ UNCHANGED <<signalled, checkout_names, INTERRUPTED, reading, cfg, clock, parentOf, backups, origBranch>>

CommitOutcomes == {"ok", "applied", "conflict", "error"}

\* variant: an already applied commit is recorded as itself
AppliedAsItself(n) == CurOp(n)

\* main.rs:711-715: the id recorded for a commit the engine reports as
\* already applied is the commit HEAD points at
AppliedId(n) == HeadCommit(n)

\* rebase.commit (main.rs:707-727): Ok(id) writes a commit on top of HEAD and
\* moves the detached HEAD to it; "already applied" records the HEAD commit;
\* every other error prompts and retries
Commit ==
    /\ active # <<>>
    /\ drv[Top].pc = "commit"
    /\ LET n == Top
           new_id == Len(parentOf[n]) + 1
       IN \E outcome \in CommitOutcomes :
          \* a conflict is resolved after at most MaxRetry prompts; any other
          \* error may come back at every attempt
          /\ outcome = "conflict" => drv[n].retries < MaxRetry
          /\ CASE outcome = "ok" ->
                    /\ parentOf' = [parentOf EXCEPT ![n] = Append(@, HeadCommit(n))]
                    /\ head' = [head EXCEPT ![n] = Detached(new_id)]
                    /\ drv' = [drv EXCEPT ![n].pc = "next",
                                  ![n].commit_map = Record(@, CurOp(n), new_id)]
               [] outcome = "applied" ->
                    /\ drv' = [drv EXCEPT ![n].pc = "next",
                                  ![n].commit_map = Record(@, CurOp(n), AppliedId(n))]
                    /\ UNCHANGED <<parentOf, head>>
               [] OTHER ->
                    /\ drv' = [drv EXCEPT ![n].pc = "commitPrompt", ![n].why = outcome]
                    /\ UNCHANGED <<parentOf, head>>
    /\ UNCHANGED <<signalled, checkout_names, INTERRUPTED, reading, cfg, clock, refs, backups, phase, todo, origBranch, results, active, hist>>

\* what the user may do to the submodules of n before answering the prompt
\* "Please resolve then press enter when satisfied": nothing, or check out,
\* in one submodule, the commit the replayed commit links (the side of a
\* gitlink conflict that `git status` shows as theirs)
Resolutions(n) ==
    {"none"} \cup {c \in SeqToSet(drv[n].subs) : Link(n, CurOp(n), c) # 0}

\* "Please resolve then press enter when satisfied" (main.rs:716-722)
CommitPrompt ==
    /\ reading
    /\ reading' = FALSE
    /\ signalled' = FALSE
    /\ active # <<>>
    /\ drv[Top].pc = "commitPrompt"
    /\ LET answer == read_stdin IN
          IF answer = "line"
          THEN \E u \in Resolutions(Top) :
               /\ head' = [r \in Repos |->
                             IF r = u THEN Detached(Link(Top, CurOp(Top), r)) ELSE head[r]]
               /\ drv' = [drv EXCEPT ![Top].pc = "commit",
                                     ![Top].retries = IF @ < MaxRetry THEN @ + 1 ELSE @,
                                     ![Top].resolved = TRUE, ![Top].why = "none"]
               /\ UNCHANGED <<phase, todo, results, active, hist>>
          ELSE /\ Fail([hist EXCEPT !.cause = "interrupted"])
               /\ head' = head
    /\ UNCHANGED <<checkout_names, INTERRUPTED, cfg, clock, parentOf, refs, backups, origBranch>>

(***************************************************************************)
(* Finish (main.rs:729-762)                                                *)
(***************************************************************************)
\* the child a key of child_results names (find_submodule takes a name or a
\* path)
ChildByKey(n, k) == CHOOSE c \in SeqToSet(Children(n)) : SubName(c) = k \/ SubPath(c) = k

\* variant: the "Reset subs" loop leaves the child's HEAD where it is
ChildHeadLeft(d, k, h) == h

\* main.rs:748-760: HEAD of the child behind key k after the "Reset subs"
\* loop: the reference name snapshotted at entry, if there is one and it is
\* not "HEAD"
ChildHeadAfter(d, k, h) ==
    IF k \in DOMAIN d.sub_heads /\ HeadName(d.sub_heads[k]) # "HEAD"
    THEN OnBranch(HeadName(d.sub_heads[k]))
    ELSE h

Finish ==
    /\ active # <<>>
    /\ drv[Top].pc = "finish"
    /\ LET n == Top
           d == drv[n]
           rewritten == HeadCommit(n)
           restored == RestoreHead(d.entryHead, d.entryId)
           kids == {ChildByKey(n, k) : k \in DOMAIN d.child_results \cap DOMAIN d.sub_heads}
           \* rebase.finish moves the rebased branch to the detached HEAD
           rf == [refs[n] EXCEPT !["multi_rebase_new"] = rewritten]
       IN /\ refs' = [refs EXCEPT ![n] = ResetRefs(restored, rf, d.entryId)]
          /\ head' = [r \in Repos |->
                        IF r = n THEN ResetHead(restored, d.entryId)
                        ELSE IF r \in kids THEN ChildHeadAfter(d, SubName(r), head[r])
                        ELSE head[r]]
          /\ ReturnOk(n, [kind |-> "full", base |-> d.base, target |-> d.target,
                          tip |-> d.entryId, map |-> d.commit_map], drv, hist)
    /\ UNCHANGED <<signalled, checkout_names, INTERRUPTED, reading, cfg, clock, parentOf, backups, origBranch>>

(***************************************************************************)
(* Finalization and rollback (main.rs:843-908)                             *)
(***************************************************************************)
\* the visitor of both traversals at node n, `marker` being multi_rebase_new
\* or multi_rebase_old: HEAD to the original branch, hard reset to the
\* marker's commit, the four markers deleted
\* `outcome` is what repo.reset returns: on an error the visitor stops after
\* set_head, with nothing reset and no marker deleted
AfterVisit(n, marker, outcome) ==
    LET commit == refs[n][marker]
        known == n \in DOMAIN origBranch
        h1 == IF known /\ origBranch[n] # "HEAD" THEN OnBranch(origBranch[n]) ELSE head[n]
        rf1 == IF known THEN ResetRefs(h1, refs[n], commit) ELSE refs[n]
        h2 == IF known THEN ResetHead(h1, commit) ELSE h1
    IN IF commit = 0
       THEN [head |-> head[n], refs |-> refs[n], ok |-> TRUE]
       ELSE IF known /\ outcome # "ok"
       THEN [head |-> h1, refs |-> refs[n], ok |-> FALSE]
       ELSE [head |-> h2, refs |-> DeleteMarkers(rf1), ok |-> NoMarkers(DeleteMarkers(rf1))]

\* what repo.reset(.., Hard, ..) returns (main.rs:863, 896)
ResetOutcomes == {"ok", "error"}

\* main.rs:880-907
SwitchNode(n, outcome) == AfterVisit(n, "multi_rebase_new", outcome)

\* main.rs:847-874
RevertNode(n, outcome) == AfterVisit(n, "multi_rebase_old", outcome)

Finalize ==
    /\ phase = "finalize"
    /\ todo # <<>>
    /\ \E outcome \in ResetOutcomes :
       LET n == Head(todo).node
           after == SwitchNode(n, outcome)
       IN /\ head' = [head EXCEPT ![n] = after.head]
          /\ refs' = [refs EXCEPT ![n] = after.refs]
          /\ IF after.ok
             THEN /\ todo' = Tail(todo)
                  /\ UNCHANGED <<phase, hist>>
             ELSE /\ todo' = <<>>
                  /\ phase' = "failed"
                  /\ hist' = [hist EXCEPT !.err = "finalize"]
    /\ UNCHANGED <<signalled, checkout_names, INTERRUPTED, reading, cfg, clock, parentOf, backups, origBranch, results, active, drv>>

FinalizeDone ==
    /\ phase = "finalize"
    /\ todo = <<>>
    /\ phase' = "done"
    /\ UNCHANGED <<signalled, checkout_names, INTERRUPTED, reading, cfg, clock, parentOf, refs, backups, head, todo, origBranch, results, active, drv, hist>>

Rollback ==
    /\ phase = "rollback"
    /\ todo # <<>>
    /\ \E outcome \in ResetOutcomes :
       LET n == Head(todo).node
           after == RevertNode(n, outcome)
       IN /\ head' = [head EXCEPT ![n] = after.head]
          /\ refs' = [refs EXCEPT ![n] = after.refs]
          /\ IF after.ok
             THEN /\ todo' = Tail(todo)
                  /\ UNCHANGED <<phase, hist>>
             ELSE /\ todo' = <<>>
                  /\ phase' = "failed"
                  /\ hist' = [hist EXCEPT !.err = "rollback"]
    /\ UNCHANGED <<signalled, checkout_names, INTERRUPTED, reading, cfg, clock, parentOf, backups, origBranch, results, active, drv>>

\* "REBASE FAIL!": main returns the driver's error
RollbackDone ==
    /\ phase = "rollback"
    /\ todo = <<>>
    /\ phase' = "failed"
    /\ UNCHANGED <<signalled, checkout_names, INTERRUPTED, reading, cfg, clock, parentOf, refs, backups, head, todo, origBranch, results, active, drv, hist>>

Next ==
    \/ CheckClean
    \/ ResolveTarget
    \/ CheckLocks
    \/ NeedCheckouts
    \/ PickBranch
    \/ PickPrompt
    \/ CheckoutBranch
    \/ DetectLeftover
    \/ CleanOldRebase
    \/ RecordBranches
    \/ Begin
    \/ Visit
    \/ Entry
    \/ Start
    \/ StartPrompt
    \/ NextOp
    \/ SubOpenFails
    \/ SubNew
    \/ SubFix
    \/ Commit
    \/ CommitPrompt
    \/ Finish
    \/ DriverDone
    \/ Finalize
    \/ FinalizeDone
    \/ Rollback
    \/ RollbackDone
    \/ ReadStdin
    \/ Interrupt

Spec == Init /\ [][Next]_vars

(***************************************************************************)
(* Properties                                                              *)
(***************************************************************************)
ReplayPcs == {"next", "subs", "commit", "commitPrompt", "finish"}
PromptPcs == {"startPrompt", "commitPrompt"}

\* the id the parent n must put child c at for the gitlink e: the child's
\* CommitMap applied to e, e itself when the map has no such key
Substituted(n, c, e) ==
    LET k == SubPath(c)
        cr == drv[n].child_results
    IN IF k \in DOMAIN cr /\ e \in DOMAIN cr[k] THEN cr[k][e] ELSE e

\* the driver asks the engine to commit the replayed commit, straight after
\* its submodule loop
AtCommit(n) == drv[n].pc = "commit" /\ ~drv[n].resolved

\* C1: when the driver asks the engine to commit a replayed commit, every
\* submodule with an entry e in that commit's tree has its HEAD at the id its
\* CommitMap gives for e, or at e when the map has no key e.
C1_ChildAtMappedId ==
    \A n \in Repos : AtCommit(n) =>
        \A c \in SeqToSet(Children(n)) :
            Link(n, CurOp(n), c) # 0 =>
                HeadCommit(c) = Substituted(n, c, Link(n, CurOp(n), c))

\* the run ended with the finalization traversal completed
Succeeded == phase = "done"
\* the run ended with the rollback traversal completed
RolledBack == phase = "failed" /\ hist.err = "driver"

\* C2: after a successful run no repository the driver entered still has one
\* of the four marker branches.
C2_NoMarkersAfterSuccess ==
    Succeeded => \A r \in Repos : hist.entries[r] > 0 => NoMarkers(refs[r])

\* HEAD of r where the rebase found it: on the branch main recorded for it,
\* or, for a repository main's traversal did not visit, where it started
OriginalHead(r) ==
    IF r \in DOMAIN origBranch THEN OnBranch(origBranch[r]) ELSE InitHead(r)

\* C3: after a completed rollback every repository is either untouched or has
\* no marker branch, HEAD on its original branch and that branch at the
\* pre-rebase tip.
C3_RolledBackOrUntouched ==
    RolledBack =>
        \A r \in Repos :
            IF hist.entries[r] = 0
            THEN /\ NoMarkers(refs[r])
                 /\ head[r] = OriginalHead(r)
                 /\ \A b \in backups[r] : b.short = "HEAD"
            ELSE /\ NoMarkers(refs[r])
                 /\ head[r] = OriginalHead(r)
                 /\ PeelHead(head[r], refs[r]) = hist.preTip[r]

\* C4: every backup branch the driver created still exists, whatever became
\* of the run.
C4_BackupsKept ==
    \A m \in hist.made :
        \E b \in backups[m.repo] : b.short = m.short /\ b.time = m.time

\* a rollback completed in a forest where two backups were made in one
\* repository
C4_Witness ==
    /\ RolledBack
    /\ \E m1, m2 \in hist.made : m1.repo = m2.repo /\ m1.time # m2.time
    /\ \A r \in Repos : hist.entries[r] > 0 => backups[r] # {}

\* C5: after a successful run, at every node that was on a named branch, the
\* branch points at what the node's CommitMap gives for the pre-rebase tip,
\* HEAD names the branch, and a backup at the pre-rebase tip exists.
C5_BranchAtRebasedHead ==
    Succeeded =>
        \A n \in DOMAIN origBranch :
            LET Y == hist.preTip[n]
            IN /\ Y \in DOMAIN results[n]
               /\ refs[n][origBranch[n]] = results[n][Y]
               /\ head[n] = OnBranch(origBranch[n])
               /\ \E b \in backups[n] : b.short = origBranch[n] /\ b.at = Y

\* C6: the CommitMap of a full replay maps the merge base to the target, from
\* the moment the replay starts to the map the driver returns.
C6_AnchorKept ==
    \A n \in Repos :
        /\ drv[n].pc \in ReplayPcs =>
              /\ drv[n].base \in DOMAIN drv[n].commit_map
              /\ drv[n].commit_map[drv[n].base] = drv[n].target
        /\ hist.ret[n].kind = "full" =>
              /\ hist.ret[n].base \in DOMAIN hist.ret[n].map
              /\ hist.ret[n].map[hist.ret[n].base] = hist.ret[n].target

\* a full replay that committed two operations has returned
C6_Witness ==
    \E n \in Repos :
        /\ hist.ret[n].kind = "full"
        /\ Cardinality(DOMAIN hist.ret[n].map) = 3
        /\ hist.ret[n].base # hist.ret[n].target

\* C7: the fast paths return exactly the map {target -> target} when HEAD is
\* the target, and exactly the identity on the range plus the merge base when
\* the merge base is the target; no commit is written.
C7_FastPathMaps ==
    \A n \in Repos :
        LET r == hist.ret[n]
        IN /\ r.kind = "same" =>
                /\ r.tip = r.target
                /\ DOMAIN r.map = {r.target}
                /\ r.map[r.target] = r.target
           /\ r.kind = "ancestor" =>
                /\ r.base = r.target /\ r.tip # r.target
                /\ DOMAIN r.map = SeqToSet(RangeSeq(OrigParents, r.base, r.tip)) \cup {r.base}
                /\ \A c \in DOMAIN r.map : r.map[c] = c
           /\ r.kind \in {"same", "ancestor"} /\ hist.entries[n] = 1 =>
                parentOf[n] = OrigParents

\* both fast paths have been taken, the second over a range of two commits
C7_Witness ==
    /\ \E n \in Repos : hist.ret[n].kind = "same"
    /\ \E n \in Repos : /\ hist.ret[n].kind = "ancestor"
                        /\ Cardinality(DOMAIN hist.ret[n].map) = 3

\* C8: the map a full replay returns has every commit of the range
\* merge-base..HEAD as a key.
C8_RangeCovered ==
    \A n \in Repos :
        hist.ret[n].kind = "full" =>
            SeqToSet(RangeSeq(OrigParents, hist.ret[n].base, hist.ret[n].tip))
                \subseteq DOMAIN hist.ret[n].map

\* the rebase of n has been initialised and not yet finished
Replaying(n) == drv[n].pc \in ReplayPcs

AtPrompt == \E n \in Repos : drv[n].pc \in PromptPcs

\* C10: from driver entry at a node to the end of the driver phase, and so at
\* every prompt, multi_rebase_old is at the node's pre-rebase tip and a backup
\* at the pre-rebase tip exists; at a prompt inside a replay step (the node's
\* own or one of a child rebased inside it) multi_rebase_track is at the
\* original commit being replayed.
C10_MarkersAtPrompts ==
    /\ \A r \in Repos :
          hist.entries[r] > 0 /\ phase \in {"driver", "finalize", "rollback"}
                /\ ~NoMarkers(refs[r]) =>
              /\ refs[r]["multi_rebase_old"] = hist.preTip[r]
              /\ \E b \in backups[r] : b.at = hist.preTip[r]
    /\ AtPrompt =>
          \A n \in Repos :
              drv[n].pc \in {"subs", "commit", "commitPrompt"} =>
                  refs[n]["multi_rebase_track"] = CurOp(n)

\* the parent is at a commit prompt after the driver entered the child twice
\* and the parent's replay moved the child
C10_Witness ==
    /\ drv["R"].pc = "commitPrompt"
    /\ hist.entries["S"] = 2
    /\ refs["S"]["multi_rebase_cur"] # refs["S"]["multi_rebase_old"]

\* the rewritten commit the last successful replay commit of n produced
LastRewritten(n) == drv[n].commit_map[drv[n].ops[drv[n].opi - 1]]

\* C11: at every prompt of a node's replay that follows a successful replay
\* commit, multi_rebase_new and multi_rebase_cur of the node are at the last
\* rewritten commit.
C11_NewCurAdvance ==
    \A n \in Repos :
        drv[n].pc = "commitPrompt" /\ drv[n].opi >= 2 =>
            /\ refs[n]["multi_rebase_new"] = LastRewritten(n)
            /\ refs[n]["multi_rebase_cur"] = LastRewritten(n)

\* the driver returned an error, which started the rollback
DriverFailed == hist.cause # "none"

\* C15: when the driver failed with an error and the run has ended, the error
\* main returns is the driver's, whatever happened in the rollback.
C15_OriginalErrorReturned ==
    phase = "failed" /\ DriverFailed => hist.err = "driver"

\* C16: the commit step prompts and retries only after a conflict; any other
\* error of the commit call leaves the driver.
C16_OnlyConflictRetried ==
    \A n \in Repos : drv[n].pc = "commitPrompt" => drv[n].why = "conflict"

\* C17: the rebase start prompts only after a conflict, and a prompt that is
\* answered is followed by another start; a non-conflict error of the start
\* ends the driver run with no prompt.
C17_StartRetriesConflictOnly ==
    /\ [](\A n \in Repos :
            /\ drv[n].pc = "startPrompt" => drv[n].why = "conflict"
            /\ hist.cause = "start" => phase \in {"rollback", "failed"} /\ active = <<>>)
    /\ [][\A n \in Repos :
            drv[n].pc = "startPrompt" /\ drv'[n] # drv[n] =>
                \/ drv'[n].pc = "start" /\ drv'[n].retries = drv[n].retries + 1
                \/ phase' = "rollback" /\ hist'.cause = "interrupted"]_vars

\* the start is tried again after a conflict prompt was answered
C17_Witness ==
    \E n \in Repos : drv[n].pc = "start" /\ drv[n].retries >= 1 /\ drv[n].why = "none"

\* C19: a child the traversal rebased is found by its path in the parent's
\* child-results during the parent's replay, also when its name differs from
\* its path, and the driver enters it once.
C19_ChildFoundByPath ==
    \A p \in Repos : \A c \in SeqToSet(Children(p)) :
        /\ Replaying(p) /\ hist.travDone[c] /\ Link(p, drv[p].target, c) # 0 =>
              SubPath(c) \in DOMAIN drv[p].child_results
        /\ hist.travDone[c] => hist.entries[c] <= 1

\* C14: when the handler sets the flag while read_stdin waits in read_line,
\* read_stdin returns the cancellation error: the prompt does not go on with
\* the line, and at a prompt of the driver the driver returns the error and
\* the rollback traversal starts.
C14_InterruptDuringRead ==
    [][reading /\ INTERRUPTED /\ ~reading' =>
          IF phase = "driver"
          THEN phase' = "rollback" /\ hist'.cause = "interrupted" /\ active' = <<>>
          ELSE phase' = "failed"]_vars

\* the rollback has completed after a prompt of the driver was interrupted
C14_Witness ==
    /\ hist.cause = "interrupted"
    /\ RolledBack
    /\ \E r \in Repos : hist.entries[r] > 0

\* C18: a submodule that does not open after the update attempt is skipped
\* by the traversal when the parent's target tree has no entry for it; when
\* the tree has an entry the traversal fails, so that its visitor is not
\* called at the parent.
C18_UnopenedChildInTargetIsFatal ==
    \A c \in SeqToSet(Children(Root)) :
        ~Opens(c) =>
            /\ hist.entries[c] = 0
            /\ Link(Root, cfg.tR, c) # 0 => hist.entries[Root] = 0

\* no branch, backup or HEAD of any repository differs from the start
NothingChanged ==
    /\ refs = [r \in Repos |-> InitRefs(r)]
    /\ head = [r \in Repos |-> InitHead(r)]
    /\ backups = [r \in Repos |-> {}]

\* C12: with a dirty root working copy, an unresolvable target or an
\* index.lock in any repository of the forest, the run never gets past the
\* precondition checks, ends in an error and changes no branch and no HEAD.
C12_PreconditionAbort ==
    cfg.fault # "none" =>
        /\ phase \in {"clean", "resolve", "locks", "failed"}
        /\ phase = "failed" => hist.err \in {"dirty", "noref", "lock"}
        /\ NothingChanged

\* C20: the first traversal of update_submodules returns true at a node
\* exactly when the node's HEAD is detached or on a marker, or a child
\* returned true -- that is, when some node of its subtree has such a HEAD;
\* with every node on a branch of the user the root's result is false.
C20_NeedsCheckoutIffUnnamed ==
    phase = "needs" =>
        \A v \in SeqToSet(PostOrder(Root, cfg.tR)) :
            need_checkouts(v.node, v.target) <=>
                \E w \in SeqToSet(PostOrder(v.node, v.target)) : Unnamed(head[w.node])

\* the run ended because a prompt was cancelled: No or a bad index at a
\* branch-choice prompt, or the interrupt flag seen by read_stdin
Cancelled ==
    \/ hist.err \in {"cancel", "interrupted"}
    \/ hist.cause = "interrupted"

\* C13: a run that ends in a cancel at any of its prompts -- those of the
\* branch choice, of the leftover cleanup and the Begin prompt included --
\* has run the rollback traversal before it exits.
C13_CancelRollsBack ==
    phase = "failed" /\ Cancelled => DriverFailed

\* the four candidate lists of node n are all empty
NoCandidate(n) ==
    /\ matching_tracked_branches(n) = <<>>
    /\ matching_local_branches(n) = <<>>
    /\ matching_remote_branches(n) = <<>>
    /\ all_local_branches(n) = <<>>

\* pick is a candidate of the first non-empty list of node n, in the order
\* tracked, local at HEAD, remote at HEAD, any local
FromFirstTier(n, pick) ==
    IF matching_tracked_branches(n) # <<>>
    THEN pick \in SeqToSet(matching_tracked_branches(n))
    ELSE IF matching_local_branches(n) # <<>>
    THEN pick \in SeqToSet(matching_local_branches(n))
    ELSE IF matching_remote_branches(n) # <<>>
    THEN pick \in SeqToSet(matching_remote_branches(n))
    ELSE pick \in SeqToSet(all_local_branches(n))

\* C21: the branch chosen for a node whose HEAD names no branch of the user
\* is a candidate of the first non-empty list in the order tracked, local at
\* HEAD, remote at HEAD, any local; with the four lists empty the run fails
\* with `No branches found`; a node on a branch of the user is never asked
\* about and gets no entry.
C21_FirstTierOffered ==
    /\ [](/\ phase = "pickPrompt" =>
                Unnamed(head[Head(todo).node]) /\ ~NoCandidate(Head(todo).node)
          /\ \A n \in DOMAIN checkout_names : Unnamed(InitHead(n))
          /\ phase = "failed" /\ hist.err = "nobranch" =>
                \E n \in Traversed : Unnamed(head[n]) /\ NoCandidate(n)
          /\ phase = "pin" =>
                \A n \in Traversed : Unnamed(InitHead(n)) => n \in DOMAIN checkout_names)
    /\ [][\A n \in Repos :
            n \in DOMAIN checkout_names' /\ n \notin DOMAIN checkout_names =>
                FromFirstTier(n, checkout_names'[n])]_vars

\* a branch was chosen from the tracked list although a different branch is
\* at HEAD
C21_Witness ==
    \E n \in DOMAIN checkout_names :
        /\ phase = "pin"
        /\ refs[n] = InitRefs(n)
        /\ checkout_names[n].remote = RemoteName
        /\ matching_local_branches(n) # <<>>
        /\ checkout_names[n] \notin SeqToSet(matching_local_branches(n))

\* the checkout traversal has visited every node
PinningDone == phase \in {"leftover", "cleanPrompt", "names", "begin"}

\* C22: the checkout traversal leaves a node with a chosen branch with a
\* backup branch at the commit HEAD pointed at, HEAD on the chosen local
\* branch and that branch at the same commit; a node without a chosen branch
\* keeps its HEAD and its branches and gets no backup.
C22_CheckoutApplied ==
    /\ [][phase = "pin" /\ (todo' # todo \/ phase' # phase) =>
            LET n == Head(todo).node
                current == HeadCommit(n)
            IN IF n \in DOMAIN checkout_names
               THEN /\ \E b \in backups'[n] : b.short = "HEAD" /\ b.at = current
                    /\ head'[n] = OnBranch(checkout_names[n].local)
                    /\ refs'[n][checkout_names[n].local] = current
                    /\ PeelHead(head'[n], refs'[n]) = current
               ELSE /\ head'[n] = head[n]
                    /\ refs'[n] = refs[n]
                    /\ backups'[n] = backups[n]]_vars
    /\ [](PinningDone =>
            \A n \in Traversed :
                IF n \in DOMAIN checkout_names
                THEN /\ \E b \in backups[n] : b.short = "HEAD" /\ b.at = TipOf(n)
                     /\ head[n] = OnBranch(checkout_names[n].local)
                     /\ HeadCommit(n) = TipOf(n)
                ELSE /\ head[n] = InitHead(n)
                     /\ backups[n] = {}
                     /\ \A b \in SeqToSet(LocalNames) : refs[n][b] = InitRefs(n)[b])

\* the checkout traversal is over: one node was put on a branch that pointed
\* elsewhere, another node had a branch and was left alone
C22_Witness ==
    /\ phase = "leftover"
    /\ \E n \in DOMAIN checkout_names :
          InitRefs(n)[checkout_names[n].local] \notin {0, TipOf(n)}
    /\ \E n \in Traversed : n \notin DOMAIN checkout_names

\* update_submodules has returned Ok
PreflightDone == phase \in {"names", "begin"}

\* C23: when update_submodules returns successfully no repository of the
\* forest has a marker branch, and the cleanup prompt is shown only when
\* some repository has one.
C23_NoLeftoverMarkers ==
    /\ PreflightDone => \A r \in Repos : NoMarkers(refs[r])
    /\ phase = "cleanPrompt" => \E r \in Repos : ~NoMarkers(refs[r])

\* the commit the replay of n wrote last, or the target before the first
WrittenLast(n) ==
    IF drv[n].opi = 1 THEN drv[n].target ELSE LastRewritten(n)

\* C24: a commit step that ends without a new commit -- the engine reported
\* the patch as already applied -- neither prompts nor retries: it records
\* the replayed commit as the commit HEAD points at, which is the last
\* rewritten commit or the target, and the replay goes on to the next
\* operation.
C24_AlreadyApplied ==
    [][\A n \in Repos :
        drv[n].pc = "commit" /\ drv'[n] # drv[n] /\ drv'[n].pc # "commitPrompt"
                             /\ parentOf'[n] = parentOf[n] =>
            /\ drv'[n].pc = "next"
            /\ drv'[n].retries = drv[n].retries
            /\ drv'[n].commit_map = Record(drv[n].commit_map, CurOp(n), HeadCommit(n))
            /\ HeadCommit(n) = WrittenLast(n)
            /\ head'[n] = head[n]]_vars

\* the second commit of a replay was already applied and is recorded as the
\* rewritten first commit
C24_Witness ==
    \E n \in Repos :
        /\ drv[n].pc = "next"
        /\ drv[n].opi = 2
        /\ drv[n].commit_map[drv[n].ops[2]] = drv[n].commit_map[drv[n].ops[1]]
        /\ drv[n].commit_map[drv[n].ops[1]] # drv[n].target

\* C25: when the driver returns Ok at a node -- from either fast path or
\* after a full replay -- the node's HEAD is the reference it was at entry
\* (detached at the entry commit, or the entry branch) and still resolves to
\* the entry commit: the driver does not move the branch it was started on.
C25_HeadRestored ==
    [][\A n \in Repos :
        drv[n].pc \in {"entry", "finish"} /\ drv'[n].pc = "idle" /\ phase' = "driver" =>
            LET eh == IF drv[n].pc = "entry" THEN head[n] ELSE drv[n].entryHead
                eid == IF drv[n].pc = "entry" THEN HeadCommit(n) ELSE drv[n].entryId
            IN /\ head'[n] = (IF HeadName(eh) = "HEAD" THEN Detached(eid)
                              ELSE OnBranch(HeadName(eh)))
               /\ PeelHead(head'[n], refs'[n]) = eid]_vars

\* a full replay has returned: HEAD is back on the branch, the branch is at
\* its old tip and the rebased commits are on multi_rebase_new
C25_Witness ==
    \E n \in Repos :
        /\ phase = "driver"
        /\ hist.ret[n].kind = "full"
        /\ drv[n].pc = "idle"
        /\ head[n].sym
        /\ head[n].name \notin Markers
        /\ refs[n][head[n].name] = hist.ret[n].tip
        /\ refs[n]["multi_rebase_new"] # hist.ret[n].tip

BeforeDriver ==
    \/ phase \in {"clean", "resolve", "locks", "needs", "pick", "pickPrompt", "pin",
                  "leftover", "cleanPrompt", "names", "begin"}
    \/ phase = "failed" /\ hist.err \in {"dirty", "noref", "lock", "nobranch", "cancel",
                                          "interrupted"}

\* C27: the driver has created no marker and no backup while the checks,
\* the pinning, the cleanup and the Begin prompt are not all behind; the
\* driver starts only from the answered Begin prompt; and the driver
\* traversal is followed by the finalization when it ended without error and
\* by the rollback when it ended with one, each excluding the other.
C27_PhaseOrder ==
    /\ [](BeforeDriver =>
            \A r \in Repos :
                /\ hist.entries[r] = 0
                /\ \A b \in backups[r] : b.short = "HEAD"
                /\ \A m \in Markers : refs[r][m] \in {0, InitRefs(r)[m]})
    /\ [][phase' = "driver" /\ phase # "driver" =>
            phase = "begin" /\ reading /\ ~INTERRUPTED]_vars
    /\ [][phase = "driver" /\ phase' # "driver" =>
            \/ /\ phase' = "finalize"
               /\ hist.cause = "none"
               /\ \A n \in Traversed : hist.travDone[n]
            \/ /\ phase' = "rollback"
               /\ hist'.cause # "none"]_vars
    /\ [][phase = "finalize" => phase' \in {"finalize", "done", "failed"}]_vars
    /\ [][phase = "rollback" => phase' \in {"rollback", "failed"}]_vars

\* the finalization has run to its end after a driver traversal with a full
\* replay
C27_Witness ==
    /\ phase = "done"
    /\ hist.cause = "none"
    /\ \E r \in Repos : hist.ret[r].kind = "full"
    /\ \A n \in Traversed : NoMarkers(refs[n])

\* C28: the replay loop of a node is left for rebase.finish only when the
\* engine has handed out every operation of the range: an error from next()
\* never ends the loop as its end does.
C28_NextErrorNotSuccess ==
    [][\A n \in Repos :
        drv[n].pc = "next" /\ drv'[n].pc = "finish" =>
            drv[n].opi = Len(drv[n].ops)]_vars

\* C29: after the checkout traversal every commit that a local branch of a
\* visited node pointed at before it is still the tip of a local branch or
\* of a backup branch of that node.
C29_NoTipLost ==
    phase = "leftover" =>
        \A n \in Traversed : \A b \in BranchNames :
            InitRefs(n)[b] # 0 =>
                \/ \E b2 \in BranchNames : refs[n][b2] = InitRefs(n)[b]
                \/ \E bk \in backups[n] : bk.at = InitRefs(n)[b]

\* C30: after a successful run no repository the driver entered has HEAD on
\* a marker branch, a submodule first rebased during its parent's replay
\* included.
C30_NoHeadOnMarker ==
    Succeeded =>
        \A r \in Repos : hist.entries[r] > 0 => HeadName(head[r]) \notin Markers

\* C31: a read_stdin call that returns after the handler has run -- at any
\* moment since the previous call returned, before or during the call --
\* finds the flag set, and so returns the error `Interrupted`.
C31_NoInterruptLost ==
    [][reading /\ ~reading' /\ signalled => read_stdin = "interrupted"]_vars

\* the program takes its next step, and a prompt that waits is answered
LiveSpec == Spec /\ WF_vars(Next)

\* main has returned
Ended == phase \in {"done", "failed"}

\* C32: when every prompt is answered and every conflict is resolved after
\* finitely many retries, the run ends: with the finalization completed, with
\* the rollback completed, or with an error returned earlier.
C32_Terminates == <>Ended

====
